---- MODULE Spec2Model ----
(***************************************************************************)
(* Model of backend/server.py: the MGNREGA district-performance service.   *)
(*                                                                         *)
(* The three MongoDB collections (states, districts, performances) are     *)
(* sequences in insertion (natural) order.  Every `await` on a storage     *)
(* operation is one atomic step, so a get_states request that seeds the    *)
(* store is a small process whose steps interleave with other requests.    *)
(* The handlers whose only storage operation is one read (get_districts,   *)
(* get_district_performance) and the handlers that touch no storage        *)
(* (get_translations, get_language_translations) are single steps.  The    *)
(* response a step produces is kept in `last` until it is delivered.       *)
(*                                                                         *)
(* Left out of the records: the Hindi names, the uuid `id`, `updated_at`   *)
(* and the floating-point financial fields; no operation reads them.       *)
(* Non-English translation texts are written "<lang>:<key>", the English   *)
(* texts verbatim.                                                         *)
(***************************************************************************)
EXTENDS Integers, Sequences, FiniteSets, TLC

(* ------------------------------ bounds -------------------------------- *)
\* concurrent request slots
NumClients == 2
\* how many times get_states may invoke the seeder in one behaviour
MaxSeedRuns == 2
\* a random draw is one of the grid points 0..Grid of its range
Grid == 4
\* seeds of the pseudo-random stream a seeder run may start from
NumSeeds == 2

Clients == 1..NumClients

(* --------------------------- program constants ------------------------ *)
\* to_list(100) in get_states and get_districts
ToListLength == 100
\* limit: int = 12
DefaultLimit == 12
\* current_year / current_month
current_year == 2025
current_month == 10
\* range(12)
MonthsGenerated == 12

(* ------------------------------ catalogs ------------------------------ *)
StateCatalog ==
  << [state_code |-> "AP", state_name |-> "Andhra Pradesh"],
     [state_code |-> "AR", state_name |-> "Arunachal Pradesh"],
     [state_code |-> "AS", state_name |-> "Assam"],
     [state_code |-> "BR", state_name |-> "Bihar"],
     [state_code |-> "CT", state_name |-> "Chhattisgarh"],
     [state_code |-> "GA", state_name |-> "Goa"],
     [state_code |-> "GJ", state_name |-> "Gujarat"],
     [state_code |-> "HR", state_name |-> "Haryana"],
     [state_code |-> "HP", state_name |-> "Himachal Pradesh"],
     [state_code |-> "JH", state_name |-> "Jharkhand"],
     [state_code |-> "KA", state_name |-> "Karnataka"],
     [state_code |-> "KL", state_name |-> "Kerala"],
     [state_code |-> "MP", state_name |-> "Madhya Pradesh"],
     [state_code |-> "MH", state_name |-> "Maharashtra"],
     [state_code |-> "MN", state_name |-> "Manipur"],
     [state_code |-> "ML", state_name |-> "Meghalaya"],
     [state_code |-> "MZ", state_name |-> "Mizoram"],
     [state_code |-> "NL", state_name |-> "Nagaland"],
     [state_code |-> "OR", state_name |-> "Odisha"],
     [state_code |-> "PB", state_name |-> "Punjab"],
     [state_code |-> "RJ", state_name |-> "Rajasthan"],
     [state_code |-> "SK", state_name |-> "Sikkim"],
     [state_code |-> "TN", state_name |-> "Tamil Nadu"],
     [state_code |-> "TG", state_name |-> "Telangana"],
     [state_code |-> "TR", state_name |-> "Tripura"],
     [state_code |-> "UP", state_name |-> "Uttar Pradesh"],
     [state_code |-> "UT", state_name |-> "Uttarakhand"],
     [state_code |-> "WB", state_name |-> "West Bengal"] >>

DistrictCatalog ==
  << [district_code |-> "AP001", district_name |-> "Visakhapatnam",
      state_code |-> "AP", state_name |-> "Andhra Pradesh"],
     [district_code |-> "AP002", district_name |-> "Vijayawada",
      state_code |-> "AP", state_name |-> "Andhra Pradesh"],
     [district_code |-> "AP003", district_name |-> "Guntur",
      state_code |-> "AP", state_name |-> "Andhra Pradesh"],
     [district_code |-> "AP004", district_name |-> "Nellore",
      state_code |-> "AP", state_name |-> "Andhra Pradesh"],
     [district_code |-> "AP005", district_name |-> "Kurnool",
      state_code |-> "AP", state_name |-> "Andhra Pradesh"],
     [district_code |-> "AR001", district_name |-> "Itanagar",
      state_code |-> "AR", state_name |-> "Arunachal Pradesh"],
     [district_code |-> "AR002", district_name |-> "Tawang",
      state_code |-> "AR", state_name |-> "Arunachal Pradesh"],
     [district_code |-> "AR003", district_name |-> "Changlang",
      state_code |-> "AR", state_name |-> "Arunachal Pradesh"],
     [district_code |-> "AS001", district_name |-> "Guwahati",
      state_code |-> "AS", state_name |-> "Assam"],
     [district_code |-> "AS002", district_name |-> "Dibrugarh",
      state_code |-> "AS", state_name |-> "Assam"],
     [district_code |-> "AS003", district_name |-> "Silchar",
      state_code |-> "AS", state_name |-> "Assam"],
     [district_code |-> "AS004", district_name |-> "Jorhat",
      state_code |-> "AS", state_name |-> "Assam"],
     [district_code |-> "BR001", district_name |-> "Patna",
      state_code |-> "BR", state_name |-> "Bihar"],
     [district_code |-> "BR002", district_name |-> "Gaya",
      state_code |-> "BR", state_name |-> "Bihar"],
     [district_code |-> "BR003", district_name |-> "Muzaffarpur",
      state_code |-> "BR", state_name |-> "Bihar"],
     [district_code |-> "BR004", district_name |-> "Bhagalpur",
      state_code |-> "BR", state_name |-> "Bihar"],
     [district_code |-> "BR005", district_name |-> "Darbhanga",
      state_code |-> "BR", state_name |-> "Bihar"],
     [district_code |-> "CT001", district_name |-> "Raipur",
      state_code |-> "CT", state_name |-> "Chhattisgarh"],
     [district_code |-> "CT002", district_name |-> "Bilaspur",
      state_code |-> "CT", state_name |-> "Chhattisgarh"],
     [district_code |-> "CT003", district_name |-> "Durg",
      state_code |-> "CT", state_name |-> "Chhattisgarh"],
     [district_code |-> "CT004", district_name |-> "Korba",
      state_code |-> "CT", state_name |-> "Chhattisgarh"],
     [district_code |-> "GA001", district_name |-> "North Goa",
      state_code |-> "GA", state_name |-> "Goa"],
     [district_code |-> "GA002", district_name |-> "South Goa",
      state_code |-> "GA", state_name |-> "Goa"],
     [district_code |-> "GJ001", district_name |-> "Ahmedabad",
      state_code |-> "GJ", state_name |-> "Gujarat"],
     [district_code |-> "GJ002", district_name |-> "Surat",
      state_code |-> "GJ", state_name |-> "Gujarat"],
     [district_code |-> "GJ003", district_name |-> "Vadodara",
      state_code |-> "GJ", state_name |-> "Gujarat"],
     [district_code |-> "GJ004", district_name |-> "Rajkot",
      state_code |-> "GJ", state_name |-> "Gujarat"],
     [district_code |-> "GJ005", district_name |-> "Bhavnagar",
      state_code |-> "GJ", state_name |-> "Gujarat"],
     [district_code |-> "HR001", district_name |-> "Gurugram",
      state_code |-> "HR", state_name |-> "Haryana"],
     [district_code |-> "HR002", district_name |-> "Faridabad",
      state_code |-> "HR", state_name |-> "Haryana"],
     [district_code |-> "HR003", district_name |-> "Panipat",
      state_code |-> "HR", state_name |-> "Haryana"],
     [district_code |-> "HR004", district_name |-> "Ambala",
      state_code |-> "HR", state_name |-> "Haryana"],
     [district_code |-> "HP001", district_name |-> "Shimla",
      state_code |-> "HP", state_name |-> "Himachal Pradesh"],
     [district_code |-> "HP002", district_name |-> "Kangra",
      state_code |-> "HP", state_name |-> "Himachal Pradesh"],
     [district_code |-> "HP003", district_name |-> "Mandi",
      state_code |-> "HP", state_name |-> "Himachal Pradesh"],
     [district_code |-> "JH001", district_name |-> "Ranchi",
      state_code |-> "JH", state_name |-> "Jharkhand"],
     [district_code |-> "JH002", district_name |-> "Jamshedpur",
      state_code |-> "JH", state_name |-> "Jharkhand"],
     [district_code |-> "JH003", district_name |-> "Dhanbad",
      state_code |-> "JH", state_name |-> "Jharkhand"],
     [district_code |-> "JH004", district_name |-> "Bokaro",
      state_code |-> "JH", state_name |-> "Jharkhand"],
     [district_code |-> "KA001", district_name |-> "Bangalore",
      state_code |-> "KA", state_name |-> "Karnataka"],
     [district_code |-> "KA002", district_name |-> "Mysore",
      state_code |-> "KA", state_name |-> "Karnataka"],
     [district_code |-> "KA003", district_name |-> "Mangalore",
      state_code |-> "KA", state_name |-> "Karnataka"],
     [district_code |-> "KA004", district_name |-> "Hubli",
      state_code |-> "KA", state_name |-> "Karnataka"],
     [district_code |-> "KL001", district_name |-> "Thiruvananthapuram",
      state_code |-> "KL", state_name |-> "Kerala"],
     [district_code |-> "KL002", district_name |-> "Kochi",
      state_code |-> "KL", state_name |-> "Kerala"],
     [district_code |-> "KL003", district_name |-> "Kozhikode",
      state_code |-> "KL", state_name |-> "Kerala"],
     [district_code |-> "KL004", district_name |-> "Kollam",
      state_code |-> "KL", state_name |-> "Kerala"],
     [district_code |-> "MP001", district_name |-> "Bhopal",
      state_code |-> "MP", state_name |-> "Madhya Pradesh"],
     [district_code |-> "MP002", district_name |-> "Indore",
      state_code |-> "MP", state_name |-> "Madhya Pradesh"],
     [district_code |-> "MP003", district_name |-> "Jabalpur",
      state_code |-> "MP", state_name |-> "Madhya Pradesh"],
     [district_code |-> "MP004", district_name |-> "Gwalior",
      state_code |-> "MP", state_name |-> "Madhya Pradesh"],
     [district_code |-> "MP005", district_name |-> "Ujjain",
      state_code |-> "MP", state_name |-> "Madhya Pradesh"],
     [district_code |-> "MH001", district_name |-> "Mumbai",
      state_code |-> "MH", state_name |-> "Maharashtra"],
     [district_code |-> "MH002", district_name |-> "Pune",
      state_code |-> "MH", state_name |-> "Maharashtra"],
     [district_code |-> "MH003", district_name |-> "Nagpur",
      state_code |-> "MH", state_name |-> "Maharashtra"],
     [district_code |-> "MH004", district_name |-> "Nashik",
      state_code |-> "MH", state_name |-> "Maharashtra"],
     [district_code |-> "MH005", district_name |-> "Aurangabad",
      state_code |-> "MH", state_name |-> "Maharashtra"],
     [district_code |-> "MN001", district_name |-> "Imphal West",
      state_code |-> "MN", state_name |-> "Manipur"],
     [district_code |-> "MN002", district_name |-> "Imphal East",
      state_code |-> "MN", state_name |-> "Manipur"],
     [district_code |-> "MN003", district_name |-> "Thoubal",
      state_code |-> "MN", state_name |-> "Manipur"],
     [district_code |-> "ML001", district_name |-> "Shillong",
      state_code |-> "ML", state_name |-> "Meghalaya"],
     [district_code |-> "ML002", district_name |-> "Tura",
      state_code |-> "ML", state_name |-> "Meghalaya"],
     [district_code |-> "MZ001", district_name |-> "Aizawl",
      state_code |-> "MZ", state_name |-> "Mizoram"],
     [district_code |-> "MZ002", district_name |-> "Lunglei",
      state_code |-> "MZ", state_name |-> "Mizoram"],
     [district_code |-> "NL001", district_name |-> "Kohima",
      state_code |-> "NL", state_name |-> "Nagaland"],
     [district_code |-> "NL002", district_name |-> "Dimapur",
      state_code |-> "NL", state_name |-> "Nagaland"],
     [district_code |-> "OR001", district_name |-> "Bhubaneswar",
      state_code |-> "OR", state_name |-> "Odisha"],
     [district_code |-> "OR002", district_name |-> "Cuttack",
      state_code |-> "OR", state_name |-> "Odisha"],
     [district_code |-> "OR003", district_name |-> "Rourkela",
      state_code |-> "OR", state_name |-> "Odisha"],
     [district_code |-> "OR004", district_name |-> "Puri",
      state_code |-> "OR", state_name |-> "Odisha"],
     [district_code |-> "PB001", district_name |-> "Ludhiana",
      state_code |-> "PB", state_name |-> "Punjab"],
     [district_code |-> "PB002", district_name |-> "Amritsar",
      state_code |-> "PB", state_name |-> "Punjab"],
     [district_code |-> "PB003", district_name |-> "Jalandhar",
      state_code |-> "PB", state_name |-> "Punjab"],
     [district_code |-> "PB004", district_name |-> "Patiala",
      state_code |-> "PB", state_name |-> "Punjab"],
     [district_code |-> "RJ001", district_name |-> "Jaipur",
      state_code |-> "RJ", state_name |-> "Rajasthan"],
     [district_code |-> "RJ002", district_name |-> "Jodhpur",
      state_code |-> "RJ", state_name |-> "Rajasthan"],
     [district_code |-> "RJ003", district_name |-> "Udaipur",
      state_code |-> "RJ", state_name |-> "Rajasthan"],
     [district_code |-> "RJ004", district_name |-> "Kota",
      state_code |-> "RJ", state_name |-> "Rajasthan"],
     [district_code |-> "RJ005", district_name |-> "Ajmer",
      state_code |-> "RJ", state_name |-> "Rajasthan"],
     [district_code |-> "SK001", district_name |-> "Gangtok",
      state_code |-> "SK", state_name |-> "Sikkim"],
     [district_code |-> "SK002", district_name |-> "Namchi",
      state_code |-> "SK", state_name |-> "Sikkim"],
     [district_code |-> "TN001", district_name |-> "Chennai",
      state_code |-> "TN", state_name |-> "Tamil Nadu"],
     [district_code |-> "TN002", district_name |-> "Coimbatore",
      state_code |-> "TN", state_name |-> "Tamil Nadu"],
     [district_code |-> "TN003", district_name |-> "Madurai",
      state_code |-> "TN", state_name |-> "Tamil Nadu"],
     [district_code |-> "TN004", district_name |-> "Trichy",
      state_code |-> "TN", state_name |-> "Tamil Nadu"],
     [district_code |-> "TN005", district_name |-> "Salem",
      state_code |-> "TN", state_name |-> "Tamil Nadu"],
     [district_code |-> "TG001", district_name |-> "Hyderabad",
      state_code |-> "TG", state_name |-> "Telangana"],
     [district_code |-> "TG002", district_name |-> "Warangal",
      state_code |-> "TG", state_name |-> "Telangana"],
     [district_code |-> "TG003", district_name |-> "Nizamabad",
      state_code |-> "TG", state_name |-> "Telangana"],
     [district_code |-> "TG004", district_name |-> "Khammam",
      state_code |-> "TG", state_name |-> "Telangana"],
     [district_code |-> "TR001", district_name |-> "Agartala",
      state_code |-> "TR", state_name |-> "Tripura"],
     [district_code |-> "TR002", district_name |-> "Udaipur",
      state_code |-> "TR", state_name |-> "Tripura"],
     [district_code |-> "UP001", district_name |-> "Lucknow",
      state_code |-> "UP", state_name |-> "Uttar Pradesh"],
     [district_code |-> "UP002", district_name |-> "Kanpur",
      state_code |-> "UP", state_name |-> "Uttar Pradesh"],
     [district_code |-> "UP003", district_name |-> "Varanasi",
      state_code |-> "UP", state_name |-> "Uttar Pradesh"],
     [district_code |-> "UP004", district_name |-> "Prayagraj",
      state_code |-> "UP", state_name |-> "Uttar Pradesh"],
     [district_code |-> "UP005", district_name |-> "Agra",
      state_code |-> "UP", state_name |-> "Uttar Pradesh"],
     [district_code |-> "UP006", district_name |-> "Meerut",
      state_code |-> "UP", state_name |-> "Uttar Pradesh"],
     [district_code |-> "UP007", district_name |-> "Noida",
      state_code |-> "UP", state_name |-> "Uttar Pradesh"],
     [district_code |-> "UT001", district_name |-> "Dehradun",
      state_code |-> "UT", state_name |-> "Uttarakhand"],
     [district_code |-> "UT002", district_name |-> "Haridwar",
      state_code |-> "UT", state_name |-> "Uttarakhand"],
     [district_code |-> "UT003", district_name |-> "Nainital",
      state_code |-> "UT", state_name |-> "Uttarakhand"],
     [district_code |-> "WB001", district_name |-> "Kolkata",
      state_code |-> "WB", state_name |-> "West Bengal"],
     [district_code |-> "WB002", district_name |-> "Darjeeling",
      state_code |-> "WB", state_name |-> "West Bengal"],
     [district_code |-> "WB003", district_name |-> "Howrah",
      state_code |-> "WB", state_name |-> "West Bengal"],
     [district_code |-> "WB004", district_name |-> "Siliguri",
      state_code |-> "WB", state_name |-> "West Bengal"] >>

StateCodes == {StateCatalog[i].state_code : i \in DOMAIN StateCatalog}
DistrictCodes == {DistrictCatalog[i].district_code : i \in DOMAIN DistrictCatalog}

(* ---------------------------- translations ---------------------------- *)
\* keys of TRANSLATIONS in definition order
TranslationKeys ==
  << "app_title", "select_state", "select_district", "performance_summary",
     "active_workers", "person_days", "budget_utilization", "works_completed",
     "avg_wage", "women_participation", "view_details", "no_data" >>

KeySet == {TranslationKeys[i] : i \in DOMAIN TranslationKeys}

\* the language codes every entry of TRANSLATIONS defines
TableLanguages == {"en", "hi", "ta", "te", "bn"}

EnglishText ==
  [k \in KeySet |->
     CASE k = "app_title" -> "MGNREGA District Dashboard"
       [] k = "select_state" -> "Select Your State"
       [] k = "select_district" -> "Select Your District"
       [] k = "performance_summary" -> "Performance Summary"
       [] k = "active_workers" -> "Active Workers"
       [] k = "person_days" -> "Person Days Generated"
       [] k = "budget_utilization" -> "Budget Used"
       [] k = "works_completed" -> "Works Completed"
       [] k = "avg_wage" -> "Average Daily Wage"
       [] k = "women_participation" -> "Women's Participation"
       [] k = "view_details" -> "View Details"
       [] k = "no_data" -> "No data available for this period"]

TRANSLATIONS ==
  [k \in KeySet |->
     [l \in TableLanguages |-> IF l = "en" THEN EnglishText[k] ELSE l \o ":" \o k]]

\* dict.get(key, default)
DictGet(d, key, default) == IF key \in DOMAIN d THEN d[key] ELSE default

\* variant: falling back to the Hindi text
TranslationFor_HindiFallback(key, language) ==
  DictGet(TRANSLATIONS[key], language, TRANSLATIONS[key]["hi"])

\* the loop body of get_language_translations: result[key] = ...
TranslationFor(key, language) ==
  DictGet(TRANSLATIONS[key], language, TRANSLATIONS[key]["en"])

(* ------------------------------ helpers ------------------------------- *)
Min(a, b) == IF a <= b THEN a ELSE b

\* cursor.to_list(length): at most `length` documents, in cursor order
ToList(seq, length) == SubSeq(seq, 1, Min(length, Len(seq)))

Reverse(seq) == [i \in 1..Len(seq) |-> seq[Len(seq) + 1 - i]]

(* ------------------------------ cursors ------------------------------- *)
\* variant: the filter dropped from the find
FindDistricts_Unfiltered(coll, state_code) == coll

\* db.districts.find({"state_code": state_code})
FindDistricts(coll, state_code) ==
  SelectSeq(coll, LAMBDA d : d.state_code = state_code)

\* db.performances.find({"district_code": district_code})
FindPerformances(coll, district_code) ==
  SelectSeq(coll, LAMBDA p : p.district_code = district_code)

\* cursor.sort(key, direction): the cursor keeps ONE ordering and each call
\* to sort() replaces it ("only the last sort() applied to this cursor has
\* any effect"); `ordering` is the ordering the cursor held before the call.
CursorSort(ordering, key, direction) == << [key |-> key, dir |-> direction] >>

\* .sort("year", -1).sort("month", -1)
PerformanceOrdering == CursorSort(CursorSort(<< >>, "year", -1), "month", -1)

\* -1, 0, 1: a sorts before, with, after b under a (possibly compound) ordering
RECURSIVE Compare(_, _, _)
Compare(a, b, ordering) ==
  IF ordering = << >> THEN 0
  ELSE LET k == Head(ordering) IN
       IF a[k.key] = b[k.key] THEN Compare(a, b, Tail(ordering))
       ELSE IF (a[k.key] < b[k.key]) = (k.dir = 1) THEN -1 ELSE 1

\* x placed behind every element that does not sort after it
RECURSIVE InsertSorted(_, _, _)
InsertSorted(x, sorted, ordering) ==
  IF sorted = << >> THEN << x >>
  ELSE IF Compare(Head(sorted), x, ordering) <= 0
       THEN << Head(sorted) >> \o InsertSorted(x, Tail(sorted), ordering)
       ELSE << x >> \o sorted

RECURSIVE StableSort(_, _)
StableSort(seq, ordering) ==
  IF seq = << >> THEN << >>
  ELSE InsertSorted(seq[Len(seq)], StableSort(SubSeq(seq, 1, Len(seq) - 1), ordering),
                    ordering)

\* The server's order among documents with equal sort keys is unspecified:
\* the two outcomes modelled keep them in natural order or in its reverse.
TieOrders == {"natural", "reverse"}

ApplyOrdering(seq, ordering, tie) ==
  IF ordering = << >> THEN seq
  ELSE IF tie = "natural" THEN StableSort(seq, ordering)
       ELSE StableSort(Reverse(seq), ordering)

\* cursor.limit(limit), for limit >= 1
CursorLimit(seq, limit) == SubSeq(seq, 1, Min(limit, Len(seq)))

\* find(...).sort("year", -1).sort("month", -1).limit(limit).to_list(limit)
QueryPerformances(coll, district_code, limit, tie) ==
  ToList(CursorLimit(ApplyOrdering(FindPerformances(coll, district_code),
                                   PerformanceOrdering, tie),
                     limit),
         limit)

(* ----------------------------- generation ----------------------------- *)
\* random.randint(lo, hi) at grid point g of 0..Grid
RandInt(lo, hi, g) == lo + ((hi - lo) * g) \div Grid

\* int(n * random.uniform(lo/100, hi/100)) at grid point g: the factor is
\* (lo*Grid + (hi-lo)*g) / (100*Grid), and int() truncates
IntTimesUniform(n, lo, hi, g) == (n * (lo * Grid + (hi - lo) * g)) \div (100 * Grid)

\* round(a / b, 2), in hundredths, to the nearest
RoundedRatio(a, b) == (2 * 100 * a + b) \div (2 * b)

\* variant: the roll-over taken only for negative months
MonthOf_StrictRollover(month_offset) ==
  LET month == current_month - month_offset IN
  IF month < 0 THEN month + 12 ELSE month

\* month = current_month - month_offset; year = current_year;
\* if month <= 0: month += 12; year -= 1
MonthOf(month_offset) ==
  LET month == current_month - month_offset IN
  IF month <= 0 THEN month + 12 ELSE month

YearOf(month_offset) ==
  LET month == current_month - month_offset IN
  IF month <= 0 THEN current_year - 1 ELSE current_year

\* variant: ongoing works estimated as 30% of the total
OngoingWorks_Estimated(total_works, completed) == (total_works * 3) \div 10

\* ongoing_works
OngoingWorks(total_works, completed) == total_works - completed

\* one iteration of the seeder's inner loop; draw gives the grid point of
\* each random call
GenRecord(district, month_offset, draw) ==
  LET total_job_cards == RandInt(20000, 100000, draw.job_cards)
      active_job_cards == IntTimesUniform(total_job_cards, 60, 80, draw.active)
      person_days == RandInt(100000, 500000, draw.person_days)
      total_works == RandInt(200, 1000, draw.works)
      completed == IntTimesUniform(total_works, 60, 80, draw.completed)
  IN [ state_code |-> district.state_code,
       state_name |-> district.state_name,
       district_code |-> district.district_code,
       district_name |-> district.district_name,
       month |-> MonthOf(month_offset),
       year |-> YearOf(month_offset),
       total_job_cards |-> total_job_cards,
       active_job_cards |-> active_job_cards,
       person_days_generated |-> person_days,
       average_days_per_household |-> RoundedRatio(person_days, active_job_cards),
       total_works |-> total_works,
       completed_works |-> completed,
       ongoing_works |-> OngoingWorks(total_works, completed) ]

DrawNames == {"job_cards", "active", "person_days", "works", "completed"}

\* the pseudo-random generator: a run's draws are a fixed stream of its seed
RandomDraw(seed, n) == (seed * 3 + n * 7 + n \div 5) % (Grid + 1)

DrawsOf(seed, k) ==
  [ job_cards |-> RandomDraw(seed, 5 * k),
    active |-> RandomDraw(seed, 5 * k + 1),
    person_days |-> RandomDraw(seed, 5 * k + 2),
    works |-> RandomDraw(seed, 5 * k + 3),
    completed |-> RandomDraw(seed, 5 * k + 4) ]

\* for district in districts: for month_offset in range(12): ... append(perf)
GeneratePerformances(seed) ==
  [ k \in 1..(Len(DistrictCatalog) * MonthsGenerated) |->
      GenRecord(DistrictCatalog[((k - 1) \div MonthsGenerated) + 1],
                (k - 1) % MonthsGenerated,
                DrawsOf(seed, k)) ]

Seeds == 0..(NumSeeds - 1)

\* the list `performances` a seeder run builds, per seed of its random stream
PerformanceBatches == [seed \in Seeds |-> GeneratePerformances(seed)]

(* ------------------------------- state -------------------------------- *)
VARIABLES
  states,        \* db.states, in natural order
  districts,     \* db.districts
  performances,  \* db.performances
  req,           \* per request slot: where its get_states handler stands
  last,          \* the response produced and not yet delivered
  seedCalls,     \* number of calls of initialize_sample_data so far
  hist,          \* history: seeder runs finished, whether runs overlapped,
                 \* state codes returned by get_states, failed requests
  gen            \* the record generator run on its own (SpecGen)

vars == << states, districts, performances, req, last, seedCalls, hist, gen >>

store == << states, districts, performances >>

\* positions of a get_states handler: idle, or suspended at one of the awaits
\* of initialize_sample_data, or at the second find of get_states
SeederPcs == {"del_states", "del_districts", "ins_states", "ins_districts",
              "del_perfs", "ins_perfs"}

\* a run that has executed its first storage operation and not its last
MidRun(c) == req[c] \in SeederPcs \ {"del_states"}

Response(op, arg, limit, status, body) ==
  [op |-> op, arg |-> arg, limit |-> limit, status |-> status, body |-> body]

NoResponse == Response("none", "", 0, 0, << >>)

GenIdle == [pc |-> "idle"]

HistInit ==
  [finished |-> 0, overlapped |-> FALSE, returned |-> {}, failed |-> 0,
   partial |-> FALSE]

\* the history once a get_states response with these states is produced
Returning(found) ==
  [hist EXCEPT !.returned = @ \cup {found[i].state_code : i \in DOMAIN found}]

Init ==
  /\ states = << >>
  /\ districts = << >>
  /\ performances = << >>
  /\ req = [c \in Clients |-> "idle"]
  /\ last = NoResponse
  /\ seedCalls = 0
  /\ hist = HistInit
  /\ gen = GenIdle

(* ---------------------------- the handlers ---------------------------- *)
\* A response is delivered before the next step is taken, so `last` is the
\* response of the step just taken, next to the store that step left.
Ready == last = NoResponse

\* raise HTTPException(status_code=404, ...), or the 200 response
ListResponse(op, arg, limit, found) ==
  IF found = << >> THEN Response(op, arg, limit, 404, << >>)
  ELSE Response(op, arg, limit, 200, found)

\* variant: get_states reseeding a store that holds states
GetStates_Reseeding(c) ==
  /\ Ready
  /\ req[c] = "idle"
  /\ seedCalls < MaxSeedRuns
  /\ seedCalls' = seedCalls + 1
  /\ req' = [req EXCEPT ![c] = "del_states"]
  /\ UNCHANGED << store, last, hist, gen >>

\* get_states, up to its first suspension: the first find, then either the
\* response or the call of initialize_sample_data
GetStates(c) ==
  /\ Ready
  /\ req[c] = "idle"
  /\ LET found == ToList(states, ToListLength) IN
     IF found = << >>
     THEN /\ seedCalls < MaxSeedRuns
          /\ seedCalls' = seedCalls + 1
          /\ req' = [req EXCEPT ![c] = "del_states"]
          /\ UNCHANGED << last, hist >>
     ELSE /\ last' = Response("get_states", "", 0, 200, found)
          /\ hist' = Returning(found)
          /\ UNCHANGED << req, seedCalls >>
  /\ UNCHANGED << store, gen >>

\* variant: the states collection not cleared
SeedDeleteStates_Skipped(c) ==
  /\ Ready
  /\ req[c] = "del_states"
  /\ req' = [req EXCEPT ![c] = "del_districts"]
  /\ hist' = [hist EXCEPT !.overlapped = @ \/ (\E d \in Clients \ {c} : MidRun(d))]
  /\ UNCHANGED << states, districts, performances, last, seedCalls, gen >>

\* await db.states.delete_many({})
SeedDeleteStates(c) ==
  /\ Ready
  /\ req[c] = "del_states"
  /\ states' = << >>
  /\ req' = [req EXCEPT ![c] = "del_districts"]
  /\ hist' = [hist EXCEPT !.overlapped = @ \/ (\E d \in Clients \ {c} : MidRun(d))]
  /\ UNCHANGED << districts, performances, last, seedCalls, gen >>

\* await db.districts.delete_many({})
SeedDeleteDistricts(c) ==
  /\ Ready
  /\ req[c] = "del_districts"
  /\ districts' = << >>
  /\ req' = [req EXCEPT ![c] = "ins_states"]
  /\ UNCHANGED << states, performances, last, seedCalls, hist, gen >>

\* await db.states.insert_many(states)
SeedInsertStates(c) ==
  /\ Ready
  /\ req[c] = "ins_states"
  /\ states' = states \o StateCatalog
  /\ req' = [req EXCEPT ![c] = "ins_districts"]
  /\ UNCHANGED << districts, performances, last, seedCalls, hist, gen >>

\* variant: the insert of the districts left out
SeedInsertDistricts_Forgotten(c) ==
  /\ Ready
  /\ req[c] = "ins_districts"
  /\ req' = [req EXCEPT ![c] = "del_perfs"]
  /\ UNCHANGED << states, districts, performances, last, seedCalls, hist, gen >>

\* await db.districts.insert_many(districts)
SeedInsertDistricts(c) ==
  /\ Ready
  /\ req[c] = "ins_districts"
  /\ districts' = districts \o DistrictCatalog
  /\ req' = [req EXCEPT ![c] = "del_perfs"]
  /\ UNCHANGED << states, performances, last, seedCalls, hist, gen >>

\* variant: the performances collection not cleared
SeedDeletePerformances_Skipped(c) ==
  /\ Ready
  /\ req[c] = "del_perfs"
  /\ req' = [req EXCEPT ![c] = "ins_perfs"]
  /\ UNCHANGED << states, districts, performances, last, seedCalls, hist, gen >>

\* await db.performances.delete_many({})
SeedDeletePerformances(c) ==
  /\ Ready
  /\ req[c] = "del_perfs"
  /\ performances' = << >>
  /\ req' = [req EXCEPT ![c] = "ins_perfs"]
  /\ UNCHANGED << states, districts, last, seedCalls, hist, gen >>

\* variant: the generated records not inserted
SeedInsertPerformances_Dropped(c) ==
  /\ Ready
  /\ req[c] = "ins_perfs"
  /\ performances' = performances
  /\ req' = [req EXCEPT ![c] = "refind"]
  /\ hist' = [hist EXCEPT !.finished = @ + 1]
  /\ UNCHANGED << states, districts, last, seedCalls, gen >>

\* the generation loop, then: if performances: await insert_many(performances)
SeedInsertPerformances(c) ==
  /\ Ready
  /\ req[c] = "ins_perfs"
  /\ \E seed \in Seeds :
       LET generated == PerformanceBatches[seed] IN
       performances' = IF generated # << >> THEN performances \o generated
                       ELSE performances
  /\ req' = [req EXCEPT ![c] = "refind"]
  /\ hist' = [hist EXCEPT !.finished = @ + 1]
  /\ UNCHANGED << states, districts, last, seedCalls, gen >>

\* back in get_states: the second find, and the response
GetStatesReread(c) ==
  /\ Ready
  /\ req[c] = "refind"
  /\ last' = Response("get_states", "", 0, 200, ToList(states, ToListLength))
  /\ hist' = Returning(ToList(states, ToListLength))
  /\ req' = [req EXCEPT ![c] = "idle"]
  /\ UNCHANGED << store, seedCalls, gen >>

\* what get_districts(state_code) answers on the store as it is
DistrictsResponse(state_code) ==
  ListResponse("get_districts", state_code, 0,
               ToList(FindDistricts(districts, state_code), ToListLength))

\* variant: NotFound also when the district itself is not stored
PerformanceResponse_ChecksDistrict(district_code, limit, tie) ==
  IF \E i \in DOMAIN districts : districts[i].district_code = district_code
  THEN ListResponse("get_district_performance", district_code, limit,
                    QueryPerformances(performances, district_code, limit, tie))
  ELSE Response("get_district_performance", district_code, limit, 404, << >>)

\* what get_district_performance(district_code, limit) answers
PerformanceResponse(district_code, limit, tie) ==
  ListResponse("get_district_performance", district_code, limit,
               QueryPerformances(performances, district_code, limit, tie))

\* variant: get_districts seeding the store when it finds nothing
GetDistricts_Seeding(state_code) ==
  /\ Ready
  /\ IF DistrictsResponse(state_code).status = 404
     THEN /\ states' = StateCatalog
          /\ districts' = DistrictCatalog
          /\ performances' = PerformanceBatches[0]
          /\ seedCalls' = seedCalls + 1
          /\ last' = ListResponse("get_districts", state_code, 0,
                                  ToList(FindDistricts(DistrictCatalog, state_code),
                                         ToListLength))
     ELSE /\ last' = DistrictsResponse(state_code)
          /\ UNCHANGED << store, seedCalls >>
  /\ UNCHANGED << req, hist, gen >>

\* get_districts(state_code)
GetDistricts(state_code) ==
  /\ Ready
  /\ last' = DistrictsResponse(state_code)
  /\ UNCHANGED << store, req, seedCalls, hist, gen >>

\* get_district_performance(district_code, limit)
GetDistrictPerformance(district_code, limit, tie) ==
  /\ Ready
  /\ last' = PerformanceResponse(district_code, limit, tie)
  /\ UNCHANGED << store, req, seedCalls, hist, gen >>

\* get_translations()
GetTranslations ==
  /\ Ready
  /\ last' = Response("get_translations", "", 0, 200,
                      [i \in DOMAIN TranslationKeys |->
                         [key |-> TranslationKeys[i],
                          translations |-> TRANSLATIONS[TranslationKeys[i]]]])
  /\ UNCHANGED << store, req, seedCalls, hist, gen >>

\* get_language_translations(language)
GetLanguageTranslations(language) ==
  /\ Ready
  /\ last' = Response("get_language_translations", language, 0, 200,
                      [key \in KeySet |-> TranslationFor(key, language)])
  /\ UNCHANGED << store, req, seedCalls, hist, gen >>

\* the response leaves the server
Deliver ==
  /\ ~Ready
  /\ last' = NoResponse
  /\ UNCHANGED << store, req, seedCalls, hist, gen >>

(* ------------------------------ requests ------------------------------ *)
StateCodeArgs == {"UP", "GA", "ZZ"}
DistrictCodeArgs == {"UP001", "GA002", "ZZ999"}
LimitArgs == {1, 3, DefaultLimit, DefaultLimit + 1}
LanguageArgs == TableLanguages \cup {"xx", "invalid"}

Next ==
  \/ \E c \in Clients : GetStates(c)
  \/ \E c \in Clients : SeedDeleteStates(c)
  \/ \E c \in Clients : SeedDeleteDistricts(c)
  \/ \E c \in Clients : SeedInsertStates(c)
  \/ \E c \in Clients : SeedInsertDistricts(c)
  \/ \E c \in Clients : SeedDeletePerformances(c)
  \/ \E c \in Clients : SeedInsertPerformances(c)
  \/ \E c \in Clients : GetStatesReread(c)
  \/ \E s \in StateCodeArgs : GetDistricts(s)
  \/ \E d \in DistrictCodeArgs, k \in LimitArgs, tie \in TieOrders :
       GetDistrictPerformance(d, k, tie)
  \/ GetTranslations
  \/ \E l \in LanguageArgs : GetLanguageTranslations(l)
  \/ Deliver

Spec == Init /\ [][Next]_vars

(* ------------------------- scheduling fairness ------------------------ *)
\* the next step of a get_states request that is past its first find
SeederStep(c) ==
  \/ SeedDeleteStates(c)
  \/ SeedDeleteDistricts(c)
  \/ SeedInsertStates(c)
  \/ SeedInsertDistricts(c)
  \/ SeedDeletePerformances(c)
  \/ SeedInsertPerformances(c)
  \/ GetStatesReread(c)

\* With no storage failure every awaited operation completes, and the event
\* loop resumes the coroutine that awaited it; a produced response is sent.
Fairness ==
  /\ WF_vars(Deliver)
  /\ \A c \in Clients : SF_vars(SeederStep(c))

SpecLive == Spec /\ Fairness

(* ----------------------- requests one at a time ----------------------- *)
\* a request starts only when none is in flight
AllIdle == \A c \in Clients : req[c] = "idle"

\* The store a first request may find with no states in it: empty, or with
\* the districts and performance records an earlier seeding left.
InitSeq ==
  /\ states = << >>
  /\ districts \in {<< >>, DistrictCatalog}
  /\ performances \in {<< >>} \cup {PerformanceBatches[seed] : seed \in Seeds}
  /\ req = [c \in Clients |-> "idle"]
  /\ last = NoResponse
  /\ seedCalls = 0
  /\ hist = HistInit
  /\ gen = GenIdle

NextSeq ==
  \/ \E c \in Clients : AllIdle /\ GetStates(c)
  \/ \E c \in Clients : SeedDeleteStates(c)
  \/ \E c \in Clients : SeedDeleteDistricts(c)
  \/ \E c \in Clients : SeedInsertStates(c)
  \/ \E c \in Clients : SeedInsertDistricts(c)
  \/ \E c \in Clients : SeedDeletePerformances(c)
  \/ \E c \in Clients : SeedInsertPerformances(c)
  \/ \E c \in Clients : GetStatesReread(c)
  \/ \E s \in StateCodeArgs : AllIdle /\ GetDistricts(s)
  \/ \E d \in DistrictCodeArgs, k \in LimitArgs, tie \in TieOrders :
       AllIdle /\ GetDistrictPerformance(d, k, tie)
  \/ AllIdle /\ GetTranslations
  \/ \E l \in LanguageArgs : AllIdle /\ GetLanguageTranslations(l)
  \/ Deliver

SpecSeq == InitSeq /\ [][NextSeq]_vars

(* -------------------------- storage failures ------------------------- *)
\* No handler catches an exception of the storage client: the exception of
\* a failing operation ends the request with the generic server error.  The
\* failing operation is taken to have had no effect on its collection.
ServerError(op, arg, limit) == Response(op, arg, limit, 500, << >>)

\* the seeder's steps after its insert of the states
AfterStates == {"ins_districts", "del_perfs", "ins_perfs"}

\* the history once a seeder run fails at this step
Failing(pc) ==
  [hist EXCEPT !.failed = @ + 1, !.partial = @ \/ pc \in AfterStates]

\* variant: the seeder's exception caught, the states read and returned
SeederOperationFails_Caught(c) ==
  /\ Ready
  /\ req[c] \in SeederPcs
  /\ last' = Response("get_states", "", 0, 200, ToList(states, ToListLength))
  /\ req' = [req EXCEPT ![c] = "idle"]
  /\ hist' = Failing(req[c])
  /\ UNCHANGED << store, seedCalls, gen >>

\* one of the awaited operations of initialize_sample_data raises
SeederOperationFails(c) ==
  /\ Ready
  /\ req[c] \in SeederPcs
  /\ last' = ServerError("get_states", "", 0)
  /\ req' = [req EXCEPT ![c] = "idle"]
  /\ hist' = Failing(req[c])
  /\ UNCHANGED << store, seedCalls, gen >>

\* the first or the second find of get_states raises
GetStatesFindFails(c) ==
  /\ Ready
  /\ req[c] \in {"idle", "refind"}
  /\ last' = ServerError("get_states", "", 0)
  /\ req' = [req EXCEPT ![c] = "idle"]
  /\ UNCHANGED << store, seedCalls, hist, gen >>

\* the find of get_districts raises
GetDistrictsFails(state_code) ==
  /\ Ready
  /\ last' = ServerError("get_districts", state_code, 0)
  /\ UNCHANGED << store, req, seedCalls, hist, gen >>

\* the find of get_district_performance raises
GetDistrictPerformanceFails(district_code, limit) ==
  /\ Ready
  /\ last' = ServerError("get_district_performance", district_code, limit)
  /\ UNCHANGED << store, req, seedCalls, hist, gen >>

\* concurrent requests against a storage whose operations may fail
NextFail ==
  \/ \E c \in Clients : GetStates(c)
  \/ \E c \in Clients : SeedDeleteStates(c)
  \/ \E c \in Clients : SeedDeleteDistricts(c)
  \/ \E c \in Clients : SeedInsertStates(c)
  \/ \E c \in Clients : SeedInsertDistricts(c)
  \/ \E c \in Clients : SeedDeletePerformances(c)
  \/ \E c \in Clients : SeedInsertPerformances(c)
  \/ \E c \in Clients : GetStatesReread(c)
  \/ \E s \in StateCodeArgs : GetDistricts(s)
  \/ \E d \in DistrictCodeArgs, k \in LimitArgs, tie \in TieOrders :
       GetDistrictPerformance(d, k, tie)
  \/ GetTranslations
  \/ \E l \in LanguageArgs : GetLanguageTranslations(l)
  \/ \E c \in Clients : SeederOperationFails(c)
  \/ \E c \in Clients : GetStatesFindFails(c)
  \/ \E s \in StateCodeArgs : GetDistrictsFails(s)
  \/ \E d \in DistrictCodeArgs, k \in LimitArgs :
       GetDistrictPerformanceFails(d, k)
  \/ Deliver

SpecFail == Init /\ [][NextFail]_vars

(* -------------------- the generator run on its own -------------------- *)
GenDraws == [DrawNames -> 0..Grid]

InitGen ==
  /\ states = << >>
  /\ districts = << >>
  /\ performances = << >>
  /\ req = [c \in Clients |-> "idle"]
  /\ last = NoResponse
  /\ seedCalls = 0
  /\ hist = HistInit
  /\ \E d \in {1, Len(DistrictCatalog)}, m \in 0..(MonthsGenerated - 1), draw \in GenDraws :
       gen = [pc |-> "drawn", district |-> d, month_offset |-> m, draw |-> draw]

BuildRecord ==
  /\ gen.pc = "drawn"
  /\ gen' = [pc |-> "built", district |-> gen.district,
             month_offset |-> gen.month_offset, draw |-> gen.draw,
             perf |-> GenRecord(DistrictCatalog[gen.district], gen.month_offset, gen.draw)]
  /\ UNCHANGED << states, districts, performances, req, last, seedCalls, hist >>

NextGen == BuildRecord

SpecGen == InitGen /\ [][NextGen]_vars

(* ====================================================================== *)
(*                              properties                                *)
(* ====================================================================== *)
Range(seq) == {seq[i] : i \in DOMAIN seq}

Count(seq, x) == Cardinality({i \in DOMAIN seq : seq[i] = x})

\* a is strictly more recent than b
Later(a, b) == a.year > b.year \/ (a.year = b.year /\ a.month > b.month)

StoredFor(district_code) == FindPerformances(performances, district_code)

SpansYears(district_code) ==
  \E p, q \in Range(StoredFor(district_code)) : p.year # q.year

IsPerformanceResponse == last.op = "get_district_performance"

\* C1: for a district whose stored records span more than one year,
\* get_district_performance returns its records in strictly descending
\* (year, month) order: of two consecutive records the first is the later.
C1_DescendingByYearMonth ==
  (IsPerformanceResponse /\ last.status = 200 /\ SpansYears(last.arg))
    => \A i \in 1..(Len(last.body) - 1) : Later(last.body[i], last.body[i + 1])

\* C2: get_district_performance(district, limit = k), k >= 1, on a district
\* with n stored records returns exactly min(k, n) records and they are the
\* min(k, n) most recent: fewer than that many stored records of the
\* district are strictly more recent than any returned one.
C2_MostRecentK ==
  (IsPerformanceResponse /\ last.status = 200)
    => LET stored == StoredFor(last.arg) IN
       /\ Len(last.body) = Min(last.limit, Len(stored))
       /\ \A i \in DOMAIN last.body :
            Cardinality({j \in DOMAIN stored : Later(stored[j], last.body[i])})
              < Len(last.body)

\* C3: with requests served one at a time and no states stored, get_states
\* returns exactly one entry per state of the catalog (28 entries), and from
\* then on get_districts succeeds with a non-empty list for every state code
\* returned and get_district_performance succeeds for every district code
\* those lists hold.
C3_SeedingTrigger ==
  /\ last.op = "get_states"
       => /\ Len(last.body) = 28
          /\ \A i \in DOMAIN StateCatalog : Count(last.body, StateCatalog[i]) = 1
  /\ (hist.finished >= 1 /\ AllIdle)
       => \A s \in Range(states) :
            LET answer == DistrictsResponse(s.state_code) IN
            /\ answer.status = 200
            /\ answer.body # << >>
            /\ \A d \in Range(answer.body), tie \in TieOrders :
                 PerformanceResponse(d.district_code, DefaultLimit, tie).status = 200

\* C3 witness: the get_states that seeded the store has answered with the
\* 28 states.
C3_Witness ==
  /\ last.op = "get_states"
  /\ hist.finished = 1
  /\ seedCalls = 1
  /\ AllIdle
  /\ Len(last.body) = 28

\* C4: initialize_sample_data is invoked exactly once, by the first
\* get_states that finds no states, under any interleaving of requests.
C4_SeededOnce == seedCalls <= 1

StoreEmpty == states = << >> /\ districts = << >> /\ performances = << >>

IsRead(r) == r.op \in {"get_districts", "get_district_performance"}

FullySeeded ==
  \A i \in DOMAIN DistrictCatalog : DistrictCatalog[i] \in Range(districts)

C7_PerformanceByDistrict ==
  IsPerformanceResponse
    => /\ (last.status = 404)
            <=> ~(\E i \in DOMAIN performances :
                    performances[i].district_code = last.arg)
       /\ last.status \in {200, 404}
       /\ last.status = 200 => last.body # << >>
       /\ \A i \in DOMAIN last.body : last.body[i].district_code = last.arg

\* C7 witness: records were returned for a district that is not stored.
C7_Witness ==
  /\ IsPerformanceResponse
  /\ last.status = 200
  /\ ~(\E i \in DOMAIN districts : districts[i].district_code = last.arg)

\* C8: get_language_translations(L) never fails and returns a mapping over
\* exactly the keys of the table, each key mapped to the table's text for L
\* where the entry has one and to its English text otherwise; a code in no
\* entry maps every key to its English text.
C8_TranslationFallback ==
  last.op = "get_language_translations"
    => /\ last.status = 200
       /\ DOMAIN last.body = KeySet
       /\ \A k \in KeySet :
            last.body[k] = IF last.arg \in DOMAIN TRANSLATIONS[k]
                           THEN TRANSLATIONS[k][last.arg]
                           ELSE TRANSLATIONS[k]["en"]
       /\ (\A k \in KeySet : last.arg \notin DOMAIN TRANSLATIONS[k])
            => \A k \in KeySet : last.body[k] = EnglishText[k]

\* C8 witness: the unknown code "xx" has been answered in English.
C8_Witness ==
  /\ last.op = "get_language_translations"
  /\ last.arg = "xx"
  /\ last.status = 200
  /\ last.body["app_title"] = "MGNREGA District Dashboard"

\* exactly one copy of the catalog and of the 12-month window
OneCopy ==
  /\ Len(states) = Len(StateCatalog)
  /\ \A i \in DOMAIN StateCatalog : Count(states, StateCatalog[i]) = 1
  /\ Len(districts) = Len(DistrictCatalog)
  /\ \A i \in DOMAIN DistrictCatalog : Count(districts, DistrictCatalog[i]) = 1
  /\ Len(performances) = 12 * Len(DistrictCatalog)
  /\ \A i \in DOMAIN DistrictCatalog :
       LET stored == StoredFor(DistrictCatalog[i].district_code) IN
       /\ Len(stored) = 12
       /\ \A a, b \in DOMAIN stored :
            a # b => << stored[a].year, stored[a].month >>
                       # << stored[b].year, stored[b].month >>

NoRunInProgress == \A c \in Clients : ~MidRun(c)

\* C9: seeder runs that follow one another, each starting after the one
\* before has finished, leave exactly one copy of the catalog: every state
\* once, every district once, 12 performance records per district with
\* pairwise distinct (year, month), after two runs as after one.
C9_SequentialReseed ==
  (~hist.overlapped /\ hist.finished >= 1 /\ NoRunInProgress) => OneCopy

\* C9 witness: two runs, one after the other, have finished.
C9_Witness ==
  /\ ~hist.overlapped
  /\ hist.finished = 2
  /\ seedCalls = 2
  /\ NoRunInProgress
  /\ OneCopy

\* C10: every generated record has completed_works + ongoing_works =
\* total_works, 0 <= completed_works <= total_works and
\* 0 < active_job_cards <= total_job_cards.
C10_DerivedFields ==
  gen.pc = "built"
    => /\ gen.perf.completed_works + gen.perf.ongoing_works = gen.perf.total_works
       /\ 0 <= gen.perf.completed_works
       /\ gen.perf.completed_works <= gen.perf.total_works
       /\ gen.perf.active_job_cards <= gen.perf.total_job_cards
       /\ gen.perf.active_job_cards > 0

\* C10 witness: a record built from the largest draws, with works ongoing.
C10_Witness ==
  /\ gen.pc = "built"
  /\ gen.draw.completed = Grid
  /\ gen.draw.active = Grid
  /\ gen.perf.total_works = 1000
  /\ gen.perf.ongoing_works > 0

\* C11: in every reachable state state_code is a unique key of the states
\* collection and district_code a unique key of the districts collection.
C11_UniqueKeys ==
  /\ \A i, j \in DOMAIN states :
       states[i].state_code = states[j].state_code => i = j
  /\ \A i, j \in DOMAIN districts :
       districts[i].district_code = districts[j].district_code => i = j

\* C12: in every reachable state every stored district names a stored state,
\* with that state's name, and every stored performance record names a
\* stored district.
C12_References ==
  /\ \A d \in Range(districts) : \E s \in Range(states) :
       s.state_code = d.state_code /\ s.state_name = d.state_name
  /\ \A i \in DOMAIN performances : \E d \in Range(districts) :
       d.district_code = performances[i].district_code

\* C13: a request that finds states stored changes no collection: no step
\* that produces a response changes the store, a get_states handler leaves
\* its idle position only when it read no states, and every change of a
\* collection is a step of a seeder run started that way.
C13_OnlySeederWrites ==
  [][ /\ (Ready /\ ~Ready') => store' = store
      /\ \A c \in Clients :
           (req[c] = "idle" /\ req'[c] # "idle")
             => (states = << >> /\ req'[c] = "del_states" /\ store' = store)
      /\ (store' # store)
           => \E c \in Clients : /\ req[c] \in SeederPcs
                                 /\ req'[c] # req[c]
                                 /\ \A d \in Clients \ {c} : req'[d] = req[d] ]_vars

\* C13 witness: while the request that seeded the store has not answered
\* yet, another get_states has read the stored states and answered.
C13_Witness ==
  /\ last.op = "get_states"
  /\ last.body # << >>
  /\ seedCalls = 1
  /\ \E c \in Clients : req[c] = "refind"

\* C14: for every catalog district the seeder generates exactly 12 records,
\* one per month offset 0..11 from 2025-10: month 10 - offset in 2025 when
\* that is positive, that plus 12 in 2024 otherwise; the months lie in 1..12,
\* the (year, month) pairs are distinct and are 2024-11 .. 2025-10.
C14_TrailingWindow ==
  (hist.finished >= 1 /\ AllIdle)
    => \A i \in DOMAIN DistrictCatalog :
         LET stored == StoredFor(DistrictCatalog[i].district_code) IN
         /\ Len(stored) = 12
         /\ \A k \in 1..12 :
              LET offset == k - 1 IN
              /\ stored[k].month = IF 10 - offset > 0 THEN 10 - offset ELSE 22 - offset
              /\ stored[k].year = IF 10 - offset > 0 THEN 2025 ELSE 2024
              /\ stored[k].month \in 1..12
         /\ \A a, b \in 1..12 :
              a # b => << stored[a].year, stored[a].month >>
                         # << stored[b].year, stored[b].month >>
         /\ {<< stored[k].year, stored[k].month >> : k \in 1..12}
              = {<< 2024, m >> : m \in 11..12} \cup {<< 2025, m >> : m \in 1..10}

\* C14 witness: a seeder run has finished and its request has answered.
C14_Witness ==
  /\ hist.finished = 1
  /\ AllIdle
  /\ last.op = "get_states"
  /\ Len(performances) = 12 * Len(DistrictCatalog)

DuplicatedStates ==
  \E i, j \in DOMAIN states : i # j /\ states[i].state_code = states[j].state_code

DuplicatedDistricts ==
  \E i, j \in DOMAIN districts :
    i # j /\ districts[i].district_code = districts[j].district_code

DuplicatedPerformances ==
  \E i \in DOMAIN DistrictCatalog :
    Len(StoredFor(DistrictCatalog[i].district_code)) > 12

\* C15: two get_states requests that both read no states both run the whole
\* delete/insert sequence, and some interleavings of their storage
\* operations leave duplicated records; duplicates come from nothing else
\* than seeder runs that overlap.
C15_DuplicatesFromOverlap ==
  /\ \/ hist.overlapped /\ seedCalls >= 2
     \/ ~(DuplicatedStates \/ DuplicatedDistricts \/ DuplicatedPerformances)
  /\ \A c \in Clients : req[c] = "refind" => hist.finished >= 1

\* C15 witness: both runs have finished and every collection is duplicated.
C15_Witness ==
  /\ AllIdle
  /\ seedCalls = 2
  /\ hist.finished = 2
  /\ DuplicatedStates
  /\ DuplicatedDistricts
  /\ DuplicatedPerformances

\* C16: every get_states request that completes returns all states of the
\* catalog, never an empty list, under any interleaving.
C16_AllStatesReturned ==
  (last.op = "get_states" /\ last.status = 200)
    => \A i \in DOMAIN StateCatalog : StateCatalog[i] \in Range(last.body)

\* C17: once a get_states response containing state s has been returned,
\* every later get_districts(s) succeeds with a non-empty list and every
\* later get_district_performance(d) for a district d of s succeeds, also
\* while the get_states that triggered the seeding is still running.
C17_ReturnedStatesStayUsable ==
  /\ (last.op = "get_districts" /\ last.arg \in hist.returned)
       => (last.status = 200 /\ last.body # << >>)
  /\ (IsPerformanceResponse
        /\ \E i \in DOMAIN DistrictCatalog :
              /\ DistrictCatalog[i].district_code = last.arg
              /\ DistrictCatalog[i].state_code \in hist.returned)
       => last.status = 200

\* C18: a failing storage operation inside the seeder is not caught: the
\* get_states request that triggered the seeding ends with the storage
\* error and no state list, and the failed step is not tried again.
C18_SeederFailurePropagates ==
  [][ \A c \in Clients :
        (req[c] \in SeederPcs /\ req'[c] \notin SeederPcs \cup {"refind"})
          => /\ last' = Response("get_states", "", 0, 500, << >>)
             /\ req'[c] = "idle"
             /\ store' = store
             /\ seedCalls' = seedCalls
             /\ hist'.finished = hist.finished ]_vars

\* C18 witness: the run failed at the insert of the districts; its request
\* has answered with the server error, the states stay inserted.
C18_Witness ==
  /\ last = Response("get_states", "", 0, 500, << >>)
  /\ hist.failed = 1
  /\ AllIdle
  /\ states # << >>
  /\ districts = << >>

\* C19: once a seeder run has failed after inserting the states and before
\* inserting the districts or the performance records, the store stays as
\* that run left it: no later step changes it, no later get_states invokes
\* the seeder, every later get_states that reads the store returns its
\* states, and get_districts / get_district_performance for data that is
\* missing never succeed.
C19_PartialSeedingPersists ==
  [][ hist.partial
        => /\ store' = store
           /\ seedCalls' = seedCalls
           /\ (last'.op = "get_states" /\ last'.status # 500)
                => (last'.status = 200 /\ last'.body # << >>)
           /\ (last'.op = "get_districts"
                 /\ ~(\E i \in DOMAIN districts :
                        districts[i].state_code = last'.arg))
                => last'.status \in {404, 500}
           /\ (last'.op = "get_district_performance"
                 /\ ~(\E i \in DOMAIN performances :
                        performances[i].district_code = last'.arg))
                => last'.status \in {404, 500} ]_vars

\* C19 read for requests one at a time: the same, from the states in which
\* no request is in flight.
C19_Sequential ==
  [][ (hist.partial /\ AllIdle)
        => /\ store' = store
           /\ seedCalls' = seedCalls ]_vars

\* the store holds every catalog state, every catalog district, and for
\* every catalog district at least 12 records covering the 12 months of the
\* window
FullCopy ==
  /\ \A i \in DOMAIN StateCatalog : StateCatalog[i] \in Range(states)
  /\ \A i \in DOMAIN DistrictCatalog :
       /\ DistrictCatalog[i] \in Range(districts)
       /\ LET stored == StoredFor(DistrictCatalog[i].district_code) IN
          /\ Len(stored) >= MonthsGenerated
          /\ \A back \in 0 .. MonthsGenerated - 1 :
               \E j \in DOMAIN stored :
                 /\ stored[j].month = MonthOf(back)
                 /\ stored[j].year = YearOf(back)

\* C20: with no storage failure and under any interleaving of the
\* requests, every get_states request that started a seeder run is again
\* and again out of the run and again and again complete (so no run and no
\* request stays in flight for ever), and whenever no request is in flight after a
\* seeder run was started the store holds at least one full copy of the
\* catalog: nothing is missing, whatever is duplicated.
C20_SeedingCompletes ==
  /\ [](AllIdle /\ seedCalls >= 1 => FullCopy)
  /\ \A c \in Clients : []<>(req[c] \notin SeederPcs)
  /\ \A c \in Clients : []<>(req[c] = "idle")

\* C20 witness: two overlapping runs have finished; the store holds
\* duplicates and a full copy.
C20_Witness ==
  /\ AllIdle
  /\ hist.overlapped
  /\ hist.finished = 2
  /\ DuplicatedStates \/ DuplicatedDistricts \/ DuplicatedPerformances
  /\ FullCopy

====
